---- MODULE Spec2Model ----
(***************************************************************************)
(* A model of the macro-action executors of IGP2 (MacroAgent and its       *)
(* subclass TrafficAgent, src/igp2/agents) and of the spatial queries of   *)
(* the road network (Map, src/igp2/opendrive/map.py).                      *)
(*                                                                         *)
(* The map part applies the queries, as functions of the network, to every *)
(* network of a bounded family.                                            *)
(*                                                                         *)
(* The agent part is a state machine: one agent object, whose class is     *)
(* fixed at construction, and one action per public method.  Every call    *)
(* leaves its outcome (normal return or the exception raised), its return  *)
(* value and its inputs in `ret`.  Exceptions keep the assignments made    *)
(* before the raise, as in Python.                                         *)
(***************************************************************************)
EXTENDS Integers, Sequences, FiniteSets, TLC

VARIABLES
    kind,               \* the agent's class: "MacroAgent" or "TrafficAgent"
    current_macro,      \* MacroAgent._current_macro (NoMacro models None)
    macro_actions,      \* TrafficAgent._macro_actions, the plan queue
    maneuver_end_idx,   \* MacroAgent._maneuver_end_idx
    trajectory_cl,      \* len(Agent.trajectory_cl.states)
    vehicle,            \* MacroAgent._vehicle: "initial" or "driven"
    goal,               \* Agent._goal: the goal's center, NoGoal models None
    last_advanced,      \* history: position in its plan of the macro action
                        \* _advance_macro made current last (0: none yet)
    ret,                \* the last call: operation, inputs, outcome, value
    network,            \* Map.roads and Map.junctions, as seen from one point
    query               \* the last query of the map and its result

agentVars == <<kind, current_macro, macro_actions, maneuver_end_idx,
               trajectory_cl, vehicle, goal, last_advanced, ret>>

mapVars == <<network, query>>

vars == <<agentVars, mapVars>>

-----------------------------------------------------------------------------
(* Bounds of the model. *)

\* longest plan a planner or a caller hands over
MaxPlanLen == 2
\* states the environment appends to the closed-loop trajectory
MaxTrajectory == 1
\* entries of maneuver_end_idx (caps the list)
MaxEndIdx == 1
\* candidate parameter sets get_possible_args returns
MaxArgs == 2

-----------------------------------------------------------------------------
(* The external collaborators, as far as the agents use them. *)

\* An observation matters to the agent code only through the answers the
\* macro actions give for it.  A call asks at most the macro action it finds
\* or makes current (the first in execution order: the current one if set,
\* else the front of the plan) and may then make the one behind it current:
\* o[1] and o[2] are the answers of done(observation) of these two; the
\* second matters only when the first is true.
Observations == {<<FALSE, FALSE>>, <<TRUE, FALSE>>, <<TRUE, TRUE>>}
NoObservation == <<FALSE, FALSE>>

\* MacroAction.done(observation) of the i-th macro action in execution order
MacroDone(o, i) == o[i]

\* 2D points: turn targets and goal centers.  The two targets are equally
\* far from the first goal and at different distances from the second.
Points == {<<1, 0>>, <<0, 1>>}
NoPoint == <<>>
NoGoal == <<>>
Goals == {<<0, 0>>, <<0, 2>>}

\* The macro-action classes handed to update_macro_action.
MacroTypes == {"Continue", "Exit"}

\* A macro-action object: where it was created (by update_macro_action, by
\* the caller of set_macro_actions, or as part of the planner's k-th
\* solution), its position in its plan, its class and its constructor
\* arguments.
Macro(origin, id, type, target) ==
    [origin |-> origin, id |-> id, type |-> type, turn_target |-> target,
     open_loop |-> FALSE]

NoMacro == [origin |-> "None", id |-> 0, type |-> "None", turn_target |-> NoPoint,
            open_loop |-> FALSE]

\* State of the current macro action's active maneuver at a call:
\* current_maneuver is None, is not done, or reports done(observation).
ManeuverStates == {"none", "running", "done"}

\* The macro-action objects of a plan of n actions.
MakePlan(n, origin) == [i \in 1..n |-> Macro(origin, i, "Continue", NoPoint)]

\* The plans a caller hands to set_macro_actions, by length (0: empty list).
PlanLengths == 0..MaxPlanLen

\* AStar.search(...)[1]: the list of solutions, each given by its length;
\* no solution, one, or a second one of a single action behind it.  A
\* solution holds at least one macro action.
PlannerResults ==
    {<<>>} \cup {<<n>> : n \in 1..MaxPlanLen} \cup {<<n, 1>> : n \in 1..MaxPlanLen}

\* The k-th solution of a planner result.
SolutionName(k) == IF k = 1 THEN "solution1" ELSE "solution2"
Solution(actions, k) == MakePlan(actions[k], SolutionName(k))

\* get_possible_args(...): a list of keyword sets; each holds a turn_target
\* (a point) or none (NoPoint: the key is absent).
RECURSIVE SeqsUpTo(_, _)
SeqsUpTo(S, n) ==
    IF n = 0 THEN {<<>>}
    ELSE LET shorter == SeqsUpTo(S, n - 1)
         IN shorter \cup {Append(q, x) : q \in {p \in shorter : Len(p) = n - 1}, x \in S}

PossibleArgs == SeqsUpTo(Points \cup {NoPoint}, MaxArgs)

\* The results of get_possible_args that leave nothing to choose from.
SingleArgs == {args \in PossibleArgs : Len(args) <= 1}

-----------------------------------------------------------------------------
(* The agent's state as one record, and the methods as functions on it.    *)
(* The record also carries what the call returns: outcome is "ok" or the   *)
(* exception raised, value the return value, asked the macro action whose  *)
(* next_action was called, planner the number of planner invocations,      *)
(* cur_done the answer of done(observation) of the macro action that is    *)
(* current when next_action returns.                                       *)

State ==
    [kind |-> kind, cur |-> current_macro, plan |-> macro_actions,
     idx |-> maneuver_end_idx, traj |-> trajectory_cl, vehicle |-> vehicle,
     goal |-> goal, adv |-> last_advanced,
     outcome |-> "ok", value |-> "none", asked |-> NoMacro, planner |-> 0,
     cur_done |-> FALSE, narrowed |-> FALSE]

Raise(s, exc) == [s EXCEPT !.outcome = exc]

\* MacroAgent.done
MacroAgentDone(s, o) ==
    IF s.cur = NoMacro THEN Raise(s, "AssertionError")
    ELSE [s EXCEPT !.value = IF MacroDone(o, 1) THEN "true" ELSE "false"]

\* TrafficAgent.done
TrafficAgentDone(s, o) ==
    IF Len(s.plan) = 0 THEN MacroAgentDone(s, o)
    ELSE [s EXCEPT !.value = "false"]

\* MacroAgent.next_action without its assertion
MacroAgentNextActionUnchecked(s, o, ms) ==
    LET s1 == IF ms = "done"
              THEN [s EXCEPT !.idx = Append(s.idx, s.traj - 1)]
              ELSE s
    IN [s1 EXCEPT !.value = "command", !.asked = s.cur]

\* MacroAgent.next_action; ms is the state of the active maneuver
MacroAgentNextAction(s, o, ms) ==
    IF s.cur = NoMacro THEN Raise(s, "AssertionError")
    ELSE LET s1 == IF ms = "done"
                   THEN [s EXCEPT !.idx = Append(s.idx, s.traj - 1)]
                   ELSE s
         IN [s1 EXCEPT !.value = "command", !.asked = s.cur]

\* _advance_macro with pop() for pop(0): the last planned action is taken
AdvanceMacroPopsBack(s) ==
    IF Len(s.plan) = 0 THEN Raise(s, "IndexError")
    ELSE [s EXCEPT !.cur = s.plan[Len(s.plan)],
                   !.plan = SubSeq(s.plan, 1, Len(s.plan) - 1),
                   !.adv = s.plan[Len(s.plan)].id]

\* _advance_macro that reads the front of the queue and leaves it there
AdvanceMacroKeepsQueue(s) ==
    IF Len(s.plan) = 0 THEN Raise(s, "IndexError")
    ELSE [s EXCEPT !.cur = Head(s.plan), !.adv = Head(s.plan).id]

\* TrafficAgent._advance_macro: list.pop(0) raises on an empty list
AdvanceMacro(s) ==
    IF Len(s.plan) = 0 THEN Raise(s, "IndexError")
    ELSE [s EXCEPT !.cur = Head(s.plan), !.plan = Tail(s.plan),
                   !.adv = Head(s.plan).id]

\* TrafficAgent.set_macro_actions
SetMacroActions(s, new_macros) ==
    IF new_macros = 0 THEN Raise(s, "AssertionError")
    ELSE [s EXCEPT !.plan = MakePlan(new_macros, "caller"), !.adv = 0]

\* set_destination with actions[-1] for actions[0]
SetDestinationLastSolution(s, g, actions) ==
    LET s1 == [s EXCEPT !.goal = IF g # NoGoal THEN g ELSE s.goal,
                        !.planner = s.planner + 1]
    IN IF Len(actions) = 0 THEN Raise(s1, "RuntimeError")
       ELSE [s1 EXCEPT !.plan = Solution(actions, Len(actions)), !.adv = 0]

\* set_destination that drops the old plan before it searches
SetDestinationClearsPlan(s, g, actions) ==
    LET s1 == [s EXCEPT !.goal = IF g # NoGoal THEN g ELSE s.goal,
                        !.planner = s.planner + 1, !.plan = <<>>]
    IN IF Len(actions) = 0 THEN Raise(s1, "RuntimeError")
       ELSE [s1 EXCEPT !.plan = Solution(actions, 1), !.adv = 0]

\* TrafficAgent.set_destination; g = NoGoal models goal=None
SetDestination(s, g, actions) ==
    LET s1 == [s EXCEPT !.goal = IF g # NoGoal THEN g ELSE s.goal,
                        !.planner = s.planner + 1]
    IN IF Len(actions) = 0 THEN Raise(s1, "RuntimeError")
       ELSE [s1 EXCEPT !.plan = Solution(actions, 1), !.adv = 0]

\* TrafficAgent.next_action without the neutral command: a finished macro
\* action with nothing queued behind it is asked for a command like any other
TrafficAgentNextActionNoNeutral(s, o, actions) ==
    LET s1 == IF s.cur = NoMacro
              THEN LET p == IF Len(s.plan) = 0
                            THEN SetDestination(s, NoGoal, actions)
                            ELSE s
                   IN IF p.outcome # "ok" THEN p ELSE AdvanceMacro(p)
              ELSE s
    IN IF s1.outcome # "ok" THEN s1
       ELSE IF MacroDone(o, 1) /\ Len(s1.plan) > 0
            THEN LET s2 == AdvanceMacro(s1)
                 IN [s2 EXCEPT !.value = "command", !.asked = s2.cur,
                               !.cur_done = MacroDone(o, 2)]
            ELSE [s1 EXCEPT !.value = "command", !.asked = s1.cur,
                            !.cur_done = MacroDone(o, 1)]

\* TrafficAgent.next_action
TrafficAgentNextAction(s, o, actions) ==
    LET s1 == IF s.cur = NoMacro
              THEN LET p == IF Len(s.plan) = 0
                            THEN SetDestination(s, NoGoal, actions)
                            ELSE s
                   IN IF p.outcome # "ok" THEN p ELSE AdvanceMacro(p)
              ELSE s
    IN IF s1.outcome # "ok" THEN s1
       ELSE IF MacroDone(o, 1)
            THEN IF Len(s1.plan) > 0
                 THEN LET s2 == AdvanceMacro(s1)
                      IN [s2 EXCEPT !.value = "command", !.asked = s2.cur,
                                    !.cur_done = MacroDone(o, 2)]
                 ELSE [s1 EXCEPT !.value = "neutral", !.cur_done = TRUE]
            ELSE [s1 EXCEPT !.value = "command", !.asked = s1.cur,
                            !.cur_done = FALSE]

\* self.next_action(observation), dispatched on the agent's class
NextActionOf(s, o, ms, actions) ==
    IF s.kind = "TrafficAgent" THEN TrafficAgentNextAction(s, o, actions)
    ELSE MacroAgentNextAction(s, o, ms)

\* self.done(observation), dispatched on the agent's class
DoneOf(s, o) ==
    IF s.kind = "TrafficAgent" THEN TrafficAgentDone(s, o)
    ELSE MacroAgentDone(s, o)

\* MacroAgent.next_state
MacroAgentNextState(s, o, ms, actions) ==
    LET s1 == NextActionOf(s, o, ms, actions)
    IN IF s1.outcome # "ok" THEN s1
       ELSE [s1 EXCEPT !.vehicle = "driven", !.value = "state"]

\* Agent.reset, the base class: a fresh closed-loop trajectory
AgentReset(s) == [s EXCEPT !.traj = 0]

\* MacroAgent.reset
MacroAgentReset(s) ==
    [AgentReset(s) EXCEPT !.vehicle = "initial", !.cur = NoMacro]

-----------------------------------------------------------------------------
(* update_macro_action *)

\* type(cls): every macro-action class is an instance of one metaclass
TypeOf(cls) == "ABCMeta"

\* isinstance(x, meta), x a class
IsInstance(x, meta) == TypeOf(x) = meta

\* squared Euclidean distance; argmin of the norm is argmin of its square
Dist2(p, q) == (p[1] - q[1]) * (p[1] - q[1]) + (p[2] - q[2]) * (p[2] - q[2])

\* np.argmin: the first index of a minimal value
ArgMin(v) ==
    CHOOSE i \in 1..Len(v) :
        /\ \A j \in 1..Len(v) : v[i] <= v[j]
        /\ \A j \in 1..(i - 1) : v[j] > v[i]

\* the candidates that hold a turn_target
TurnTargets(args) == SelectSeq(args, LAMBDA t : t # NoPoint)

\* the narrowing of update_macro_action: the condition
NarrowsArgs(new_macro_action, possible_args) ==
    Len(possible_args) > 1 /\ IsInstance(new_macro_action, TypeOf("Exit"))

\* the narrowing of update_macro_action: the single candidate kept
ClosestArgs(possible_args, center) ==
    LET ps == TurnTargets(possible_args)
        closest == ArgMin([i \in 1..Len(ps) |-> Dist2(ps[i], center)])
    IN <<ps[closest]>>

\* the loop that constructs a macro action per candidate and installs it
RECURSIVE InstallAll(_, _, _)
InstallAll(s, t, args) ==
    IF Len(args) = 0 THEN s
    ELSE InstallAll([s EXCEPT !.cur = Macro("update", 0, t, Head(args))],
                    t, Tail(args))

\* MacroAgent.update_macro_action
UpdateMacroAction(s, t, possible_args) ==
    IF s.goal = NoGoal THEN Raise(s, "AttributeError")
    ELSE IF NarrowsArgs(t, possible_args)
         THEN IF Len(TurnTargets(possible_args)) = 0
              THEN Raise([s EXCEPT !.narrowed = TRUE], "ValueError")
              ELSE InstallAll([s EXCEPT !.narrowed = TRUE], t,
                              ClosestArgs(possible_args, s.goal))
         ELSE InstallAll(s, t, possible_args)

-----------------------------------------------------------------------------
(* The road network and its queries (Map).                                 *)
(*                                                                         *)
(* The queries look at the network only through the distance of each       *)
(* boundary to the query point and the heading of each road beside it, so  *)
(* a network is given as seen from one query point.  Distances are in      *)
(* units of the precision error (1e-8), angles in units of pi/4.           *)

\* np.pi, in units of pi/4
Pi == 4

\* Map.ROAD_PRECISION_ERROR and Map.JUNCTION_PRECISION_ERROR
ROAD_PRECISION_ERROR == 1
JUNCTION_PRECISION_ERROR == 1

\* most roads of a network
MaxRoads == 2

\* boundary.distance(point): on the boundary, and one precision error away
Distances == {0, 1}
\* a road or junction whose boundary is None
NoBoundary == -1
\* max_distance=None
NoDistance == -1
\* the wider max_distance a caller passes
MaxDistances == {NoDistance, 2}

\* road.junction is None; the one junction of a network has id 1
NoJunction == 0

\* heading of the road's reference line at the projection of the point
RoadAngles == {0, 3}
\* heading arguments (11 is 3 plus a full turn) and thresholds
Headings == {0, 11}
Thresholds == {0, 2, 4}

\* A road: the distance of its boundary to the point, whether it is
\* drivable, the junction it belongs to and its heading beside the point.
Roads ==
    [boundary : Distances \cup {NoBoundary}, drivable : BOOLEAN,
     junction : {NoJunction, 1}, angle : RoadAngles]

\* Map.roads in the order of the dictionary (a road's id is its index) and
\* the boundary of the junction of Map.junctions.
Networks ==
    [roads : SeqsUpTo(Roads, MaxRoads), junction : Distances \cup {NoBoundary}]

EmptyNetwork == [roads |-> <<>>, junction |-> NoBoundary]

\* the ids of Map.roads, in order
RoadIds(net) == [i \in 1..Len(net.roads) |-> i]

\* Map.roads_at
RoadsAt(net, drivable, max_distance) ==
    LET md == IF max_distance = NoDistance THEN ROAD_PRECISION_ERROR
              ELSE max_distance
        Candidate(i) ==
            LET road == net.roads[i]
            IN /\ road.boundary # NoBoundary /\ road.boundary < md
               /\ ~(drivable /\ ~road.drivable)
    IN SelectSeq(RoadIds(net), Candidate)

\* Map.junction_at
JunctionAt(net) ==
    IF net.junction # NoBoundary /\ net.junction < JUNCTION_PRECISION_ERROR
    THEN 1 ELSE NoJunction

\* Junction.roads: the roads that belong to the junction
JunctionRoads(net, j) ==
    SelectSeq(RoadIds(net), LAMBDA i : net.roads[i].junction = j)

\* normalise_angle: the equivalent angle in [-pi, pi)
NormaliseAngle(a) == ((a + Pi) % (2 * Pi)) - Pi

Abs(x) == IF x < 0 THEN -x ELSE x

\* the body of the loop of roads_within_angle: whether the road is kept
WithinAngle(road, original_heading, threshold) ==
    LET heading == IF /\ road.junction = NoJunction
                      /\ Abs(original_heading - road.angle) > Pi \div 2
                   THEN NormaliseAngle(original_heading + Pi)
                   ELSE original_heading
        diff == Abs(NormaliseAngle(heading - road.angle))
    IN diff < threshold

\* roads_within_angle without the return of a single road
RoadsWithinAngleNoShortcut(net, heading, threshold, max_distance) ==
    IF threshold <= 0 THEN <<>>
    ELSE LET md == IF max_distance = NoDistance THEN ROAD_PRECISION_ERROR
                   ELSE max_distance
             roads == RoadsAt(net, FALSE, md)
             junction_at_point == JunctionAt(net)
             checked == IF Len(roads) > 1 /\ junction_at_point # NoJunction
                        THEN JunctionRoads(net, junction_at_point)
                        ELSE roads
             original_heading == NormaliseAngle(heading)
         IN SelectSeq(checked, LAMBDA i :
                WithinAngle(net.roads[i], original_heading, threshold))

\* Map.roads_within_angle
RoadsWithinAngle(net, heading, threshold, max_distance) ==
    IF threshold <= 0 THEN <<>>
    ELSE LET md == IF max_distance = NoDistance THEN ROAD_PRECISION_ERROR
                   ELSE max_distance
             roads == RoadsAt(net, FALSE, md)
             junction_at_point == JunctionAt(net)
             checked == IF Len(roads) > 1 /\ junction_at_point # NoJunction
                        THEN JunctionRoads(net, junction_at_point)
                        ELSE roads
             original_heading == NormaliseAngle(heading)
         IN IF Len(roads) = 1 THEN roads
            ELSE SelectSeq(checked, LAMBDA i :
                     WithinAngle(net.roads[i], original_heading, threshold))

\* What a query leaves behind: its arguments and the ids it returns.
Query(op, drivable, heading, threshold, max_distance, value) ==
    [op |-> op, drivable |-> drivable, heading |-> heading,
     threshold |-> threshold, max_distance |-> max_distance, value |-> value]

NoQuery == Query("none", FALSE, 0, 0, NoDistance, <<>>)

-----------------------------------------------------------------------------
(* The actions: one per call. *)

\* The executor state a call finds.
Pre ==
    [cur |-> current_macro, plan |-> macro_actions, idx |-> maneuver_end_idx,
     traj |-> trajectory_cl, vehicle |-> vehicle, adv |-> last_advanced]

\* What a call leaves behind: the operation, the executor state it found,
\* the observation and maneuver state it was given, the exception or the
\* return value, the macro action asked for a command, the number of planner
\* invocations and of solutions the planner returned, and for
\* update_macro_action the class, the number of candidates and whether they
\* were narrowed.
Ret(op, o, ms, s, nsol, t, nargs) ==
    [op |-> op, pre |-> Pre, obs |-> o, maneuver |-> ms, outcome |-> s.outcome,
     value |-> IF s.outcome = "ok" THEN s.value ELSE "none",
     asked |-> IF s.outcome = "ok" THEN s.asked ELSE NoMacro,
     planner |-> s.planner, nsol |-> IF s.planner > 0 THEN nsol ELSE 0,
     cur_done |-> s.outcome = "ok" /\ s.cur_done,
     narrowed |-> s.narrowed, type |-> t, nargs |-> nargs]

Commit(s) ==
    /\ kind' = s.kind
    /\ current_macro' = s.cur
    /\ macro_actions' = s.plan
    /\ maneuver_end_idx' = s.idx
    /\ trajectory_cl' = s.traj
    /\ vehicle' = s.vehicle
    /\ goal' = s.goal
    /\ last_advanced' = s.adv
    /\ UNCHANGED mapVars

\* whether a next_action call in state s reaches the planner
NeedsPlanner(s) ==
    s.kind = "TrafficAgent" /\ s.cur = NoMacro /\ Len(s.plan) = 0

PlannerInputs(s) == IF NeedsPlanner(s) THEN PlannerResults ELSE {<<>>}

\* done(observation) asks the current macro action alone
DoneObservations == {o \in Observations : o[2] = FALSE}

\* MacroAgent.next_action asks no macro action whether it is done
NextActionObservations(s) ==
    IF s.kind = "TrafficAgent" THEN Observations ELSE {NoObservation}

CallDone(o) ==
    LET s == DoneOf(State, o)
    IN /\ Commit(s)
       /\ ret' = Ret("done", o, "none", s, 0, "None", 0)

CallNextAction(o, ms, actions) ==
    LET s == NextActionOf(State, o, ms, actions)
    IN /\ Len(maneuver_end_idx) < MaxEndIdx
       /\ Commit(s)
       /\ ret' = Ret("next_action", o, ms, s, Len(actions), "None", 0)

CallNextState(o, ms, actions) ==
    LET s == MacroAgentNextState(State, o, ms, actions)
    IN /\ Len(maneuver_end_idx) < MaxEndIdx
       /\ Commit(s)
       /\ ret' = Ret("next_state", o, ms, s, Len(actions), "None", 0)

CallReset ==
    LET s == MacroAgentReset(State)
    IN /\ Commit(s)
       /\ ret' = Ret("reset", NoObservation, "none", s, 0, "None", 0)

CallSetMacroActions(new_macros) ==
    LET s == SetMacroActions(State, new_macros)
    IN /\ kind = "TrafficAgent"
       /\ Commit(s)
       /\ ret' = Ret("set_macro_actions", NoObservation, "none", s, 0, "None", 0)

CallSetDestination(g, actions) ==
    LET s == SetDestination(State, g, actions)
    IN /\ kind = "TrafficAgent"
       /\ Commit(s)
       /\ ret' = Ret("set_destination", NoObservation, "none", s, Len(actions), "None", 0)

CallUpdateMacroAction(t, args) ==
    LET s == UpdateMacroAction(State, t, args)
    IN /\ Commit(s)
       /\ ret' = Ret("update_macro_action", NoObservation, "none", s, 0, t, Len(args))

\* the simulation appends a state to the agent's closed-loop trajectory
TrajectoryGrows ==
    /\ trajectory_cl < MaxTrajectory
    /\ trajectory_cl' = trajectory_cl + 1
    /\ ret' = Ret("add_state", NoObservation, "none", State, 0, "None", 0)
    /\ UNCHANGED <<kind, current_macro, macro_actions, maneuver_end_idx,
                   vehicle, goal, last_advanced, mapVars>>

\* MacroAgent.__init__ / TrafficAgent.__init__; no map is queried
Init ==
    /\ network = EmptyNetwork
    /\ query = NoQuery
    /\ kind \in {"MacroAgent", "TrafficAgent"}
    /\ current_macro = NoMacro
    /\ macro_actions = <<>>
    /\ maneuver_end_idx = <<>>
    /\ trajectory_cl = 0
    /\ vehicle = "initial"
    /\ goal \in Goals \cup {NoGoal}
    /\ last_advanced = 0
    /\ ret = [op |-> "init", pre |-> Pre, obs |-> NoObservation, maneuver |-> "none",
              outcome |-> "ok", value |-> "none", asked |-> NoMacro,
              planner |-> 0, nsol |-> 0, cur_done |-> FALSE, narrowed |-> FALSE,
              type |-> "None", nargs |-> 0]

Next ==
    \/ \E o \in DoneObservations : CallDone(o)
    \/ \E o \in NextActionObservations(State), ms \in ManeuverStates,
          actions \in PlannerInputs(State) : CallNextAction(o, ms, actions)
    \/ \E o \in NextActionObservations(State), ms \in ManeuverStates,
          actions \in PlannerInputs(State) : CallNextState(o, ms, actions)
    \/ CallReset
    \/ \E new_macros \in PlanLengths : CallSetMacroActions(new_macros)
    \/ \E g \in Goals \cup {NoGoal}, actions \in PlannerResults :
          CallSetDestination(g, actions)
    \/ \E t \in MacroTypes, args \in SingleArgs : CallUpdateMacroAction(t, args)
    \/ TrajectoryGrows

\* The executors: every method, in any order.  update_macro_action is given
\* at most one candidate here; UpdateSpec gives it every list of candidates.
Spec == Init /\ [][Next]_vars

UpdateNext ==
    \/ \E t \in MacroTypes, args \in PossibleArgs : CallUpdateMacroAction(t, args)
    \/ CallReset

\* update_macro_action on an agent of either class, with every list of
\* candidates, from every state earlier calls of it and reset() leave.
UpdateSpec == Init /\ [][UpdateNext]_vars

-----------------------------------------------------------------------------
(* The queries of the map: one action per query. *)

QueryRoadsAt(drivable, max_distance) ==
    /\ query' = Query("roads_at", drivable, 0, 0, max_distance,
                      RoadsAt(network, drivable, max_distance))
    /\ UNCHANGED <<network, agentVars>>

QueryJunctionAt ==
    /\ query' = Query("junction_at", FALSE, 0, 0, NoDistance,
                      IF JunctionAt(network) = NoJunction THEN <<>>
                      ELSE <<JunctionAt(network)>>)
    /\ UNCHANGED <<network, agentVars>>

QueryRoadsWithinAngle(heading, threshold, max_distance) ==
    /\ query' = Query("roads_within_angle", FALSE, heading, threshold,
                      max_distance,
                      RoadsWithinAngle(network, heading, threshold,
                                       max_distance))
    /\ UNCHANGED <<network, agentVars>>

\* Map.__init__ on any network of the family; the agent is left alone
MapInit ==
    /\ network \in Networks
    /\ query = NoQuery
    /\ kind = "MacroAgent"
    /\ current_macro = NoMacro
    /\ macro_actions = <<>>
    /\ maneuver_end_idx = <<>>
    /\ trajectory_cl = 0
    /\ vehicle = "initial"
    /\ goal = NoGoal
    /\ last_advanced = 0
    /\ ret = [op |-> "init", pre |-> Pre, obs |-> NoObservation, maneuver |-> "none",
              outcome |-> "ok", value |-> "none", asked |-> NoMacro,
              planner |-> 0, nsol |-> 0, cur_done |-> FALSE, narrowed |-> FALSE,
              type |-> "None", nargs |-> 0]

MapNext ==
    \/ \E drivable \in BOOLEAN, max_distance \in MaxDistances :
          QueryRoadsAt(drivable, max_distance)
    \/ QueryJunctionAt
    \/ \E heading \in Headings, threshold \in Thresholds,
          max_distance \in MaxDistances :
          QueryRoadsWithinAngle(heading, threshold, max_distance)

\* The queries of the map, in any order, on every network of the family.
MapSpec == MapInit /\ [][MapNext]_vars

(***************************************************************************)
(* Properties of the agents                                                *)
(***************************************************************************)

\* C1: TrafficAgent.done returns true exactly when the plan is empty and a
\* current macro action exists that reports done for the observation, and
\* returns false in every other state, the one with no current macro action
\* included.
C1_DoneIsTotal ==
    (kind = "TrafficAgent" /\ ret.op = "done") =>
        /\ ret.outcome = "ok"
        /\ ret.value = IF /\ macro_actions = <<>>
                          /\ current_macro # NoMacro
                          /\ MacroDone(ret.obs, 1)
                       THEN "true" ELSE "false"

\* a next_action call of a TrafficAgent whose current macro action reports
\* done while n >= 1 actions are queued
C2_Pre ==
    /\ kind = "TrafficAgent"
    /\ ret.op = "next_action"
    /\ ret.pre.cur # NoMacro
    /\ MacroDone(ret.obs, 1)
    /\ Len(ret.pre.plan) >= 1

\* C2: when the current macro action reports done and n >= 1 actions are
\* queued, next_action leaves n - 1 queued, the former front of the queue is
\* current and the rest keeps its order; the queue is always the part of the
\* plan behind the last action made current, so actions become current in
\* plan order and none twice.
C2_NextActionPopsFront ==
    /\ C2_Pre =>
          /\ ret.outcome = "ok"
          /\ Len(macro_actions) = Len(ret.pre.plan) - 1
          /\ current_macro = Head(ret.pre.plan)
          /\ macro_actions = Tail(ret.pre.plan)
    /\ \A i \in 1..Len(macro_actions) :
          /\ macro_actions[i].id = last_advanced + i
          /\ macro_actions[i].origin = macro_actions[1].origin
    /\ (ret.op = "next_action" /\ ret.planner = 0
            /\ current_macro # ret.pre.cur) =>
          /\ current_macro.id = last_advanced
          /\ last_advanced > ret.pre.adv

C2_Witness ==
    /\ C2_Pre
    /\ Len(ret.pre.plan) = 2
    /\ Len(macro_actions) = 1
    /\ current_macro.id = 1

\* a next_action call of a TrafficAgent whose current macro action reports
\* done while nothing is queued
C3_Pre ==
    /\ kind = "TrafficAgent"
    /\ ret.op = "next_action"
    /\ ret.pre.cur # NoMacro
    /\ MacroDone(ret.obs, 1)
    /\ ret.pre.plan = <<>>

\* C3: when the current macro action reports done and the queue is empty,
\* next_action returns the neutral command, asks no macro action for a
\* command and leaves the current macro action and the queue as they were.
C3_ExhaustedIsNeutral ==
    C3_Pre =>
        /\ ret.outcome = "ok"
        /\ ret.value = "neutral"
        /\ ret.asked = NoMacro
        /\ current_macro = ret.pre.cur
        /\ macro_actions = <<>>

C3_Witness ==
    C3_Pre /\ ret.value = "neutral" /\ current_macro.origin = "solution1"

\* set_destination called with an empty plan and no current macro action
C4_Planned ==
    /\ kind = "TrafficAgent"
    /\ ret.op = "set_destination"
    /\ ret.pre.cur = NoMacro
    /\ ret.pre.plan = <<>>

\* next_action called right after such a set_destination returned
C4_Step ==
    /\ C4_Planned
    /\ ret.outcome = "ok"
    /\ ret'.op = "next_action"

C5_Pre ==
    /\ kind = "TrafficAgent"
    /\ ret.op \in {"set_destination", "next_action"}
    /\ ret.planner > 0
    /\ ret.nsol = 0

\* C5: when the planner returns no solution, the no-path error is raised,
\* the planner has been called once, and the plan and the current macro
\* action are what they were before the call.
C5_NoPathLeavesStateAlone ==
    C5_Pre =>
        /\ ret.outcome = "RuntimeError"
        /\ ret.planner = 1
        /\ macro_actions = ret.pre.plan
        /\ current_macro = ret.pre.cur

C5_Witness ==
    /\ C5_Pre
    /\ ret.op = "set_destination"
    /\ ret.pre.plan # <<>>
    /\ ret.pre.cur # NoMacro

\* C6: on a next_action call that asks the current macro action for a
\* command, maneuver_end_idx grows by exactly one entry, the trajectory
\* length, when the active maneuver reports done, and is unchanged otherwise.
C6_ManeuverEndRecorded ==
    (ret.op = "next_action" /\ ret.outcome = "ok" /\ ret.asked # NoMacro) =>
        maneuver_end_idx = IF ret.maneuver = "done"
                           THEN Append(ret.pre.idx, ret.pre.traj)
                           ELSE ret.pre.idx

\* C7: after reset no macro action is current and maneuver_end_idx is empty.
C7_ResetRestoresInitial ==
    ret.op = "reset" =>
        /\ current_macro = NoMacro
        /\ maneuver_end_idx = <<>>

\* a MacroAgent asked for a command, a state or done with no current macro
C8_Pre ==
    /\ kind = "MacroAgent"
    /\ ret.op \in {"next_action", "next_state", "done"}
    /\ ret.pre.cur = NoMacro

\* C8: a MacroAgent with no current macro action fails next_action (and
\* done) with an assertion error: no command is returned, no macro action
\* is asked, and the agent's state is what it was.
C8_NoMacroFails ==
    C8_Pre =>
        /\ ret.outcome = "AssertionError"
        /\ ret.value = "none"
        /\ ret.asked = NoMacro
        /\ current_macro = NoMacro
        /\ maneuver_end_idx = ret.pre.idx
        /\ trajectory_cl = ret.pre.traj
        /\ vehicle = ret.pre.vehicle

C8_Witness ==
    /\ C8_Pre
    /\ ret.op = "next_action"
    /\ ret.maneuver = "done"
    /\ ret.outcome = "AssertionError"

\* C9: update_macro_action narrows the candidate arguments to the turn
\* target closest to the goal exactly when the macro-action type is Exit and
\* more than one candidate exists.
C9_NarrowsOnlyExit ==
    (ret.op = "update_macro_action" /\ ret.outcome # "AttributeError") =>
        (ret.narrowed <=> (ret.nargs > 1 /\ ret.type = "Exit"))

(***************************************************************************)
(* Properties of the map                                                   *)
(***************************************************************************)

\* the roads whose boundary lies within the distance the query allows
C10_RoadsNear ==
    {i \in 1..Len(network.roads) :
        /\ network.roads[i].boundary # NoBoundary
        /\ network.roads[i].boundary <
              (IF query.max_distance = NoDistance THEN ROAD_PRECISION_ERROR
               ELSE query.max_distance)}

\* roads_within_angle with a positive threshold at a point near one road
C10_Pre ==
    /\ query.op = "roads_within_angle"
    /\ query.threshold > 0
    /\ Cardinality(C10_RoadsNear) = 1

\* C10: when exactly one road lies within the distance limit of the point
\* and the threshold is positive, roads_within_angle returns that road
\* alone, whatever its angular difference to the heading and whether or not
\* the point is inside a junction.
C10_SingleRoadReturned ==
    C10_Pre => \E i \in C10_RoadsNear : query.value = <<i>>

\* the single road is off the heading by the threshold or more, and the
\* point is inside the junction
C10_Witness ==
    /\ C10_Pre
    /\ JunctionAt(network) # NoJunction
    /\ \E i \in C10_RoadsNear :
          /\ query.value = <<i>>
          /\ ~WithinAngle(network.roads[i], NormaliseAngle(query.heading),
                          query.threshold)

-----------------------------------------------------------------------------
(* Lanes.  A road owns lane sections; a section lists its lanes as         *)
(* all_lanes does: left lanes (positive ids), the center lane (id 0),      *)
(* right lanes (negative ids).  A lane is found by its place: road,        *)
(* section and position in the section.                                    *)

\* the agent part of the state while only maps are looked at
AgentIdle ==
    /\ kind = "MacroAgent"
    /\ current_macro = NoMacro
    /\ macro_actions = <<>>
    /\ maneuver_end_idx = <<>>
    /\ trajectory_cl = 0
    /\ vehicle = "initial"
    /\ goal = NoGoal
    /\ last_advanced = 0
    /\ ret = [op |-> "init", pre |-> Pre, obs |-> NoObservation, maneuver |-> "none",
              outcome |-> "ok", value |-> "none", asked |-> NoMacro,
              planner |-> 0, nsol |-> 0, cur_done |-> FALSE, narrowed |-> FALSE,
              type |-> "None", nargs |-> 0]

\* Map.LANE_PRECISION_ERROR
LANE_PRECISION_ERROR == 1

\* a boundary that is an empty geometry (boundary.is_empty)
EmptyBoundary == -2

\* lane.type: LaneTypes.DRIVING and another type (center lanes: "none")
LaneTypes == {"driving", "sidewalk"}

Lane(id, boundary, type) == [id |-> id, boundary |-> boundary, type |-> type]

\* the lane a reference <<road, section, position>> names
LaneOf(net, ref) == net.roads[ref[1]].lanes[ref[2]][ref[3]]

RECURSIVE Flatten(_)
Flatten(seqs) ==
    IF seqs = <<>> THEN <<>> ELSE Head(seqs) \o Flatten(Tail(seqs))

\* for lane_section in road.lanes.lane_sections: for lane in
\* lane_section.all_lanes, as references
LaneRefs(net, r) ==
    Flatten([s \in 1..Len(net.roads[r].lanes) |->
                [k \in 1..Len(net.roads[r].lanes[s]) |-> <<r, s, k>>]])

\* `x not in candidates` before every append: first occurrences only
RECURSIVE Distinct(_)
Distinct(seq) ==
    IF seq = <<>> THEN <<>>
    ELSE LET front == Distinct(SubSeq(seq, 1, Len(seq) - 1))
             last == seq[Len(seq)]
         IN IF \E i \in 1..Len(front) : front[i] = last THEN front
            ELSE Append(front, last)

\* Map.lanes_at
LanesAt(net, drivable_only, max_distance) ==
    LET md == IF max_distance = NoDistance THEN LANE_PRECISION_ERROR
              ELSE max_distance
        roads == RoadsAt(net, FALSE, md)
        refs == Flatten([i \in 1..Len(roads) |-> LaneRefs(net, roads[i])])
        Candidate(ref) ==
            LET lane == LaneOf(net, ref)
            IN /\ lane.boundary # NoBoundary
               /\ lane.boundary # EmptyBoundary
               /\ lane.boundary < md
               /\ (~drivable_only \/ lane.type = "driving")
    IN Distinct(SelectSeq(refs, Candidate))

\* The networks lanes_at is applied to: every road has one section of a
\* left lane and the center lane.
LanesAtRoads ==
    {[boundary |-> b, drivable |-> t = "driving", junction |-> NoJunction,
      angle |-> 0,
      lanes |-> <<<<Lane(1, lb, t), Lane(0, cb, "none")>>>>] :
        b \in Distances, lb \in Distances \cup {NoBoundary, EmptyBoundary},
        t \in LaneTypes, cb \in {0, NoBoundary}}

LanesAtNetworks ==
    [roads : SeqsUpTo(LanesAtRoads, MaxRoads), junction : {NoBoundary}]

QueryLanesAt(drivable_only, max_distance) ==
    /\ query.op = "none"
    /\ query' = Query("lanes_at", drivable_only, 0, 0, max_distance,
                      LanesAt(network, drivable_only, max_distance))
    /\ UNCHANGED <<network, agentVars>>

LanesAtInit ==
    /\ network \in LanesAtNetworks
    /\ query = NoQuery
    /\ AgentIdle

LanesAtNext ==
    \E drivable_only \in BOOLEAN, max_distance \in MaxDistances :
        QueryLanesAt(drivable_only, max_distance)

\* lanes_at, once on every network of the family
LanesAtSpec == LanesAtInit /\ [][LanesAtNext]_vars

\* C11: lanes_at returns no lane with id 0 and no lane twice, whatever
\* drivable_only and max_distance are.
C11_NoCenterLaneNoDuplicate ==
    query.op = "lanes_at" =>
        /\ \A i \in 1..Len(query.value) :
              LaneOf(network, query.value[i]).id # 0
        /\ \A i, j \in 1..Len(query.value) :
              query.value[i] = query.value[j] => i = j

-----------------------------------------------------------------------------
(* get_adjacent_lanes *)

\* largest lane id of a section, to either side
MaxLaneId == 2

\* np.sign
Sign(x) == IF x > 0 THEN 1 ELSE IF x < 0 THEN -1 ELSE 0

\* current_lane.lane_section.all_lanes, as references
SectionRefs(net, ref) ==
    [k \in 1..Len(net.roads[ref[1]].lanes[ref[2]]) |-> <<ref[1], ref[2], k>>]

\* get_adjacent_lanes whose same_direction-only branch forgets the direction
GetAdjacentLanesAnyDirection(net, current_lane, same_direction, drivable_only) ==
    LET direction == Sign(LaneOf(net, current_lane).id)
        Adjacent(ref) ==
            LET lane == LaneOf(net, ref)
                dirs_equal == Sign(lane.id) = direction
                drivable == lane.type = "driving"
            IN /\ lane.id # LaneOf(net, current_lane).id /\ lane.id # 0
               /\ IF same_direction /\ drivable_only
                  THEN dirs_equal /\ drivable
                  ELSE IF same_direction THEN TRUE
                  ELSE IF drivable_only THEN drivable
                  ELSE TRUE
    IN SelectSeq(SectionRefs(net, current_lane), Adjacent)

\* Map.get_adjacent_lanes
GetAdjacentLanes(net, current_lane, same_direction, drivable_only) ==
    LET direction == Sign(LaneOf(net, current_lane).id)
        Adjacent(ref) ==
            LET lane == LaneOf(net, ref)
                dirs_equal == Sign(lane.id) = direction
                drivable == lane.type = "driving"
            IN /\ lane.id # LaneOf(net, current_lane).id /\ lane.id # 0
               /\ IF same_direction /\ drivable_only
                  THEN dirs_equal /\ drivable
                  ELSE IF same_direction THEN dirs_equal
                  ELSE IF drivable_only THEN drivable
                  ELSE TRUE
    IN SelectSeq(SectionRefs(net, current_lane), Adjacent)

\* The lane sections with ids from i downwards: any choice of ids, in
\* descending order, each lane of either type.
RECURSIVE SectionsFrom(_)
SectionsFrom(i) ==
    IF i < -MaxLaneId THEN {<<>>}
    ELSE LET rest == SectionsFrom(i - 1)
         IN rest \cup {<<Lane(i, 0, t)>> \o r : t \in LaneTypes, r \in rest}

\* One road with one lane section.
AdjacentNetworks ==
    {[roads |-> <<[boundary |-> 0, drivable |-> TRUE, junction |-> NoJunction,
                   angle |-> 0, lanes |-> <<ls>>]>>,
      junction |-> NoBoundary] : ls \in SectionsFrom(MaxLaneId)}

\* What a query about a lane leaves behind.
LaneQuery(op, lane, same_direction, drivable_only, value) ==
    [op |-> op, lane |-> lane, same_direction |-> same_direction,
     drivable_only |-> drivable_only, value |-> value]

QueryGetAdjacentLanes(current_lane, same_direction, drivable_only) ==
    /\ query.op = "none"
    /\ query' = LaneQuery("get_adjacent_lanes", current_lane, same_direction,
                          drivable_only,
                          GetAdjacentLanes(network, current_lane,
                                           same_direction, drivable_only))
    /\ UNCHANGED <<network, agentVars>>

AdjacentInit ==
    /\ network \in AdjacentNetworks
    /\ query = NoQuery
    /\ AgentIdle

AdjacentNext ==
    \E current_lane \in {<<1, 1, k>> : k \in 1..Len(network.roads[1].lanes[1])},
       same_direction \in BOOLEAN, drivable_only \in BOOLEAN :
        QueryGetAdjacentLanes(current_lane, same_direction, drivable_only)

\* get_adjacent_lanes, once for every lane of every section of the family
AdjacentSpec == AdjacentInit /\ [][AdjacentNext]_vars

\* C12: get_adjacent_lanes returns exactly the lanes of the lane's own
\* section whose id differs from the lane's and is not 0, of the same id
\* sign when same_direction, drivable when drivable_only; with
\* same_direction no returned lane has another id sign.
C12_AdjacentLanes ==
    query.op = "get_adjacent_lanes" =>
        LET section == network.roads[query.lane[1]].lanes[query.lane[2]]
            own == LaneOf(network, query.lane).id
            wanted == {k \in 1..Len(section) :
                         /\ section[k].id # own
                         /\ section[k].id # 0
                         /\ (query.same_direction =>
                                (section[k].id > 0 <=> own > 0)
                                /\ (section[k].id < 0 <=> own < 0))
                         /\ (query.drivable_only =>
                                section[k].type = "driving")}
            got == {query.value[i][3] : i \in 1..Len(query.value)}
        IN /\ got = wanted
           /\ Len(query.value) = Cardinality(wanted)
           /\ \A i \in 1..Len(query.value) :
                 /\ query.value[i][1] = query.lane[1]
                 /\ query.value[i][2] = query.lane[2]
           /\ query.same_direction =>
                 \A i \in 1..Len(query.value) :
                     Sign(LaneOf(network, query.value[i]).id) = Sign(own)

\* same direction only, asked of a lane that has a neighbour on its side
\* and lanes on the other side
C12_Witness ==
    /\ query.op = "get_adjacent_lanes"
    /\ query.same_direction /\ ~query.drivable_only
    /\ LaneOf(network, query.lane).id = 1
    /\ Len(query.value) = 1
    /\ LaneOf(network, query.value[1]).id = 2
    /\ \E k \in 1..Len(network.roads[1].lanes[1]) :
          network.roads[1].lanes[1][k].id < 0

-----------------------------------------------------------------------------
(* road_in_roundabout.  Roads are linked to a predecessor and a successor, *)
(* each a road or a junction; junctions may belong to a junction group.    *)

NoLink == [type |-> "None", id |-> 0]
RoadLink(id) == [type |-> "Road", id |-> id]
JunctionLink(id) == [type |-> "Junction", id |-> id]

\* junction.junction_group is None
NoGroup == 0

\* the roads and junctions of the networks looked at
LinkedRoadIds == {1, 2}
LinkedJunctionIds == {1, 2}

Links ==
    {NoLink} \cup {RoadLink(r) : r \in LinkedRoadIds}
             \cup {JunctionLink(j) : j \in LinkedJunctionIds}

\* Roads linked in every way, chains that close a cycle included; a road
\* belongs to junction 1 or to none.  Junction 1 has group 1 or none,
\* junction 2 has group 1 or 2; group 2 is a roundabout, group 1 may be.
LinkedNetworks ==
    [roads : [LinkedRoadIds -> [junction : {NoJunction, 1},
                                predecessor : Links, successor : Links]],
     junctions : {<<g1, g2>> : g1 \in {NoGroup, 1}, g2 \in {1, 2}},
     junction_groups : {<<t, "roundabout">> : t \in {"roundabout", "unknown"}}]

\* junction.junction_group of a junction id
GroupOf(net, j) == net.junctions[j]

\* junction_group.type
GroupType(net, g) == net.junction_groups[g]

\* `a and b` where an operand may raise: b is not evaluated unless a is true
AndThen(a, b) == IF a = "true" THEN b ELSE a

Bool(b) == IF b THEN "true" ELSE "false"

\* Map.road_in_roundabout; active holds the roads whose calls are on the
\* stack.  A call for one of them repeats the calls made since, without
\* end, until the interpreter's recursion limit raises RecursionError.
RECURSIVE RoadInRoundabout(_, _, _)
RoadInRoundabout(net, r, active) ==
    LET road == net.roads[r]
        junction == road.junction
        predecessor == road.predecessor
        successor == road.successor
        deeper == active \cup {r}
    IN IF r \in active THEN "RecursionError"
       ELSE IF predecessor = NoLink \/ successor = NoLink THEN "false"
       ELSE IF junction # NoJunction
       THEN IF /\ GroupOf(net, junction) # NoGroup
               /\ GroupType(net, GroupOf(net, junction)) = "roundabout"
            THEN IF predecessor.type = "Road" /\ successor.type = "Road"
                 THEN AndThen(RoadInRoundabout(net, predecessor.id, deeper),
                              RoadInRoundabout(net, successor.id, deeper))
                 ELSE IF predecessor.type = "Junction" /\ successor.type = "Road"
                 THEN AndThen(Bool(/\ GroupOf(net, predecessor.id) # NoGroup
                                   /\ GroupOf(net, predecessor.id) =
                                         GroupOf(net, junction)),
                              RoadInRoundabout(net, successor.id, deeper))
                 ELSE IF successor.type = "Junction" /\ predecessor.type = "Road"
                 THEN AndThen(Bool(/\ GroupOf(net, successor.id) # NoGroup
                                   /\ GroupOf(net, successor.id) =
                                         GroupOf(net, junction)),
                              RoadInRoundabout(net, predecessor.id, deeper))
                 ELSE Bool(/\ GroupOf(net, predecessor.id) # NoGroup
                           /\ GroupOf(net, predecessor.id) = GroupOf(net, junction)
                           /\ GroupOf(net, successor.id) # NoGroup
                           /\ GroupOf(net, successor.id) = GroupOf(net, junction))
            ELSE "false"
       ELSE IF predecessor.type # "Junction" \/ successor.type # "Junction"
       THEN "false"
       ELSE Bool(/\ GroupOf(net, predecessor.id) = GroupOf(net, successor.id)
                 /\ GroupOf(net, successor.id) # NoGroup
                 /\ GroupType(net, GroupOf(net, predecessor.id)) = "roundabout"
                 /\ GroupType(net, GroupOf(net, successor.id)) = "roundabout")

\* What a query about a road leaves behind.
RoadQuery(op, road, value) == [op |-> op, road |-> road, value |-> value]

QueryRoadInRoundabout(road) ==
    /\ query.op = "none"
    /\ query' = RoadQuery("road_in_roundabout", road,
                          RoadInRoundabout(network, road, {}))
    /\ UNCHANGED <<network, agentVars>>

RoundaboutInit ==
    /\ network \in LinkedNetworks
    /\ query = NoQuery
    /\ AgentIdle

RoundaboutNext ==
    \E road \in LinkedRoadIds : QueryRoadInRoundabout(road)

\* road_in_roundabout, once for every road of every network of the family
RoundaboutSpec == RoundaboutInit /\ [][RoundaboutNext]_vars

\* C13: road_in_roundabout returns a boolean on every network, networks
\* whose predecessor and successor links close a cycle included.
C13_Terminates ==
    query.op = "road_in_roundabout" => query.value \in {"true", "false"}

-----------------------------------------------------------------------------
(* best_road_at *)

\* heading=None
NoHeading == 100

\* no road: best_road_at returns None
NoRoad == 0

\* np.inf, above every angular difference
Infinity == 1000

\* lane_section.right_lanes
RightLanes(lane_section) == SelectSeq(lane_section, LAMBDA lane : lane.id < 0)

\* lane_section.left_lanes
LeftLanes(lane_section) == SelectSeq(lane_section, LAMBDA lane : lane.id > 0)

\* all([not ls.right_lanes for ls in road.lanes.lane_sections])
NoRightLanes(road) ==
    \A s \in 1..Len(road.lanes) : RightLanes(road.lanes[s]) = <<>>

\* the angular difference a road gets in the loop of best_road_at
RoadDiff(road, original_heading) ==
    LET angle == IF road.junction # NoJunction /\ NoRightLanes(road)
                 THEN NormaliseAngle(road.angle + Pi)
                 ELSE road.angle
        heading == IF /\ road.junction = NoJunction
                      /\ Abs(original_heading - road.angle) > Pi \div 2
                   THEN NormaliseAngle(original_heading + Pi)
                   ELSE original_heading
    IN Abs(((heading - angle + Pi) % (2 * Pi)) - Pi)

\* The loop of best_road_at after the first k roads: <<best, best_diff>>.
RECURSIVE BestRoadAfter(_, _, _, _, _, _)
BestRoadAfter(net, roads, k, original_heading, drivable, with_goal) ==
    IF k = 0 THEN <<NoRoad, Infinity>>
    ELSE LET before == BestRoadAfter(net, roads, k - 1, original_heading,
                                     drivable, with_goal)
             best == before[1]
             best_diff == before[2]
             road == net.roads[roads[k]]
             diff == RoadDiff(road, original_heading)
         IN IF drivable /\ ~road.drivable THEN before
            ELSE IF with_goal /\ best # NoRoad
            THEN IF road.goal < net.roads[best].goal
                 THEN <<roads[k], diff>>
                 ELSE before
            ELSE IF diff < best_diff THEN <<roads[k], diff>>
                 ELSE before

\* best_road_at that goes through the loop also when no heading is given
BestRoadAtAlwaysLoops(net, heading, drivable, with_goal) ==
    LET roads == RoadsAt(net, FALSE, NoDistance)
    IN IF Len(roads) = 0 THEN NoRoad
       ELSE IF Len(roads) = 1 THEN roads[1]
       ELSE BestRoadAfter(net, roads, Len(roads), NormaliseAngle(heading),
                          drivable, with_goal)[1]

\* best_road_at that never looks at the goal
BestRoadAtByAngle(net, heading, drivable, with_goal) ==
    LET roads == RoadsAt(net, FALSE, NoDistance)
    IN IF Len(roads) = 0 THEN NoRoad
       ELSE IF Len(roads) = 1 \/ heading = NoHeading THEN roads[1]
       ELSE BestRoadAfter(net, roads, Len(roads), NormaliseAngle(heading),
                          drivable, FALSE)[1]

\* Map.best_road_at; with_goal: goal is not None
BestRoadAt(net, heading, drivable, with_goal) ==
    LET roads == RoadsAt(net, FALSE, NoDistance)
    IN IF Len(roads) = 0 THEN NoRoad
       ELSE IF Len(roads) = 1 \/ heading = NoHeading THEN roads[1]
       ELSE BestRoadAfter(net, roads, Len(roads), NormaliseAngle(heading),
                          drivable, with_goal)[1]

\* goal.distance(road.midline), in units of length
GoalDistances == {1, 2}

\* Roads at the point: drivable or not, heading with or against the
\* reference line, nearer to or farther from the goal, outside a junction
\* or a connecting road with or without right lanes; and one road away
\* from the point.
BestRoads ==
    {[boundary |-> 0, drivable |-> d, junction |-> j[1], angle |-> a,
      goal |-> g, lanes |-> j[2]] :
        d \in BOOLEAN, a \in RoadAngles, g \in GoalDistances,
        j \in {<<NoJunction, <<<<Lane(0, NoBoundary, "none"),
                                 Lane(-1, 0, "driving")>>>>>>,
               <<1, <<<<Lane(0, NoBoundary, "none"),
                       Lane(-1, 0, "driving")>>>>>>,
               <<1, <<<<Lane(1, 0, "driving"),
                       Lane(0, NoBoundary, "none")>>>>>>}}
    \cup {[boundary |-> 1, drivable |-> TRUE, junction |-> NoJunction,
           angle |-> 0, goal |-> 1,
           lanes |-> <<<<Lane(0, NoBoundary, "none"),
                         Lane(-1, 0, "driving")>>>>]}

BestRoadNetworks ==
    [roads : SeqsUpTo(BestRoads, MaxRoads), junction : {NoBoundary}]

\* What a best_road_at or best_lane_at query leaves behind.
BestQuery(op, heading, drivable, max_distance, with_goal, value) ==
    [op |-> op, heading |-> heading, drivable |-> drivable,
     max_distance |-> max_distance, goal |-> with_goal, value |-> value]

QueryBestRoadAt(heading, drivable, with_goal) ==
    /\ query.op = "none"
    /\ query' = BestQuery("best_road_at", heading, drivable, NoDistance,
                          with_goal,
                          BestRoadAt(network, heading, drivable, with_goal))
    /\ UNCHANGED <<network, agentVars>>

BestRoadInit ==
    /\ network \in BestRoadNetworks
    /\ query = NoQuery
    /\ AgentIdle

BestRoadNext ==
    \E heading \in Headings \cup {NoHeading}, drivable \in BOOLEAN,
       with_goal \in BOOLEAN :
        QueryBestRoadAt(heading, drivable, with_goal)

\* best_road_at, once on every network of the family
BestRoadSpec == BestRoadInit /\ [][BestRoadNext]_vars

\* the roads whose boundary is at the point
RoadsAtPoint ==
    {i \in 1..Len(network.roads) :
        /\ network.roads[i].boundary # NoBoundary
        /\ network.roads[i].boundary < ROAD_PRECISION_ERROR}

-----------------------------------------------------------------------------
(* Construction: __process_road_layout *)

\* most roads, junctions and junction groups of a parsed description
MaxElements == 2

\* the ids the elements of a description carry
ElementIds == {1, 2}

\* The parsed OpenDrive description: the ids of its roads, junctions and
\* junction groups, in the order of the file.
Descriptions ==
    [roads : SeqsUpTo(ElementIds, MaxElements),
     junctions : SeqsUpTo(ElementIds, MaxElements),
     junction_groups : SeqsUpTo(ElementIds, MaxElements)]

\* whether id is a key of the dictionary d, a sequence of <<id, element>>
HasKey(d, id) == \E i \in 1..Len(d) : d[i][1] = id

\* d[id] = element: a new key goes to the end, a known key keeps its place
SetItem(d, id, element) ==
    IF HasKey(d, id)
    THEN [i \in 1..Len(d) |-> IF d[i][1] = id THEN <<id, element>> ELSE d[i]]
    ELSE Append(d, <<id, element>>)

\* One loop of __process_road_layout without its assertion, over the first
\* k elements.
RECURSIVE CollectUnchecked(_, _)
CollectUnchecked(ids, k) ==
    IF k = 0 THEN [outcome |-> "ok", dict |-> <<>>]
    ELSE LET before == CollectUnchecked(ids, k - 1)
         IN [before EXCEPT !.dict = SetItem(before.dict, ids[k], k)]

\* One loop of __process_road_layout over the first k elements; an element
\* is known by its place in the description.
RECURSIVE Collect(_, _)
Collect(ids, k) ==
    IF k = 0 THEN [outcome |-> "ok", dict |-> <<>>]
    ELSE LET before == Collect(ids, k - 1)
         IN IF before.outcome # "ok" THEN before
            ELSE IF HasKey(before.dict, ids[k])
            THEN [before EXCEPT !.outcome = "AssertionError"]
            ELSE [before EXCEPT !.dict = SetItem(before.dict, ids[k], k)]

\* Map.__process_road_layout
ProcessRoadLayout(opendrive) ==
    LET roads == Collect(opendrive.roads, Len(opendrive.roads))
        junctions == Collect(opendrive.junctions, Len(opendrive.junctions))
        junction_groups == Collect(opendrive.junction_groups,
                                   Len(opendrive.junction_groups))
    IN IF roads.outcome # "ok" THEN [outcome |-> roads.outcome]
       ELSE IF junctions.outcome # "ok" THEN [outcome |-> junctions.outcome]
       ELSE IF junction_groups.outcome # "ok"
       THEN [outcome |-> junction_groups.outcome]
       ELSE [outcome |-> "ok", roads |-> roads.dict,
             junctions |-> junctions.dict,
             junction_groups |-> junction_groups.dict]

\* Map(opendrive): an exception leaves no Map object
Construct(opendrive) ==
    /\ query.op = "none"
    /\ LET made == ProcessRoadLayout(opendrive)
       IN /\ query' = [op |-> "construct", opendrive |-> opendrive,
                       outcome |-> made.outcome]
          /\ network' = IF made.outcome = "ok" THEN made ELSE network
    /\ UNCHANGED agentVars

ConstructInit ==
    /\ network = EmptyNetwork
    /\ query = NoQuery
    /\ AgentIdle

ConstructNext ==
    \E opendrive \in Descriptions : Construct(opendrive)

\* the construction of a map from every description of the family
ConstructSpec == ConstructInit /\ [][ConstructNext]_vars

\* whether a list of ids names an id twice
C15_Repeats(ids) ==
    \E i, j \in 1..Len(ids) : i # j /\ ids[i] = ids[j]

\* C15: a description with two roads, two junctions or two junction groups
\* of one id aborts the construction with an error and leaves no network;
\* a network that is constructed maps every id to exactly one element, in
\* the order of the description.
C15_DuplicateIdsAbort ==
    query.op = "construct" =>
        IF \/ C15_Repeats(query.opendrive.roads)
           \/ C15_Repeats(query.opendrive.junctions)
           \/ C15_Repeats(query.opendrive.junction_groups)
        THEN query.outcome = "AssertionError" /\ network = EmptyNetwork
        ELSE /\ query.outcome = "ok"
             /\ network.roads =
                   [i \in 1..Len(query.opendrive.roads) |->
                       <<query.opendrive.roads[i], i>>]
             /\ network.junctions =
                   [i \in 1..Len(query.opendrive.junctions) |->
                       <<query.opendrive.junctions[i], i>>]
             /\ network.junction_groups =
                   [i \in 1..Len(query.opendrive.junction_groups) |->
                       <<query.opendrive.junction_groups[i], i>>]

\* only the junction groups repeat an id, after roads and junctions went in
C15_Witness ==
    /\ query.op = "construct"
    /\ query.outcome = "AssertionError"
    /\ Len(query.opendrive.roads) = 2
    /\ ~C15_Repeats(query.opendrive.roads)
    /\ Len(query.opendrive.junctions) = 2
    /\ ~C15_Repeats(query.opendrive.junctions)
    /\ C15_Repeats(query.opendrive.junction_groups)
    /\ network = EmptyNetwork

-----------------------------------------------------------------------------
(* is_valid.  A geometry is None, or a shape that is_valid or is not.      *)

\* the geometries of roads and of left and right lanes: <<boundary, is_valid>>
Geometries == {<<NoBoundary, FALSE>>, <<0, FALSE>>, <<0, TRUE>>}

\* the geometries of center lanes and of junctions
FewGeometries == {<<NoBoundary, FALSE>>, <<0, TRUE>>}

GeomLane(id, g) ==
    [id |-> id, boundary |-> g[1], valid |-> g[2], type |-> "driving"]

\* whether a road, lane or junction fails the test of is_valid
BadGeometry(x) == x.boundary = NoBoundary \/ ~x.valid

\* Roads with one section of a left lane, the center lane and a right lane.
ValidRoads ==
    {[boundary |-> b[1], valid |-> b[2], drivable |-> TRUE,
      junction |-> NoJunction, angle |-> 0,
      lanes |-> <<<<GeomLane(1, l), GeomLane(0, c), GeomLane(-1, r)>>>>] :
        b \in Geometries, l \in Geometries, c \in FewGeometries,
        r \in Geometries}

\* Map.junctions: no junction or one
ValidJunctions ==
    {<<>>} \cup {<<[boundary |-> g[1], valid |-> g[2]]>> : g \in FewGeometries}

ValidNetworks ==
    [roads : SeqsUpTo(ValidRoads, MaxRoads), junctions : ValidJunctions]

\* Map.is_valid
IsValid(net) ==
    /\ \A r \in 1..Len(net.roads) :
          /\ ~BadGeometry(net.roads[r])
          /\ \A s \in 1..Len(net.roads[r].lanes) :
                LET lane_section == net.roads[r].lanes[s]
                    lanes == LeftLanes(lane_section) \o RightLanes(lane_section)
                IN \A k \in 1..Len(lanes) : ~BadGeometry(lanes[k])
    /\ \A j \in 1..Len(net.junctions) : ~BadGeometry(net.junctions[j])

QueryIsValid ==
    /\ query.op = "none"
    /\ query' = [op |-> "is_valid", value |-> IsValid(network)]
    /\ UNCHANGED <<network, agentVars>>

ValidInit ==
    /\ network \in ValidNetworks
    /\ query = NoQuery
    /\ AgentIdle

ValidNext == QueryIsValid

\* is_valid, on every network of the family
ValidSpec == ValidInit /\ [][ValidNext]_vars

\* C16: is_valid is true exactly when every road boundary, the boundary of
\* every lane of every lane section of every road, and every junction
\* boundary is there and valid.
C16_ValidIffAllGeometriesValid ==
    query.op = "is_valid" =>
        (query.value <=>
            /\ \A r \in 1..Len(network.roads) :
                  /\ ~BadGeometry(network.roads[r])
                  /\ \A s \in 1..Len(network.roads[r].lanes) :
                        \A k \in 1..Len(network.roads[r].lanes[s]) :
                            ~BadGeometry(network.roads[r].lanes[s][k])
            /\ \A j \in 1..Len(network.junctions) :
                  ~BadGeometry(network.junctions[j]))

-----------------------------------------------------------------------------
(* Properties of update_macro_action and of the plan queue, continued      *)

\* C17: every update_macro_action call that returns normally leaves a
\* current macro action constructed by the call, of the requested type and
\* in closed-loop mode.
C17_UpdateInstallsRequestedType ==
    (ret.op = "update_macro_action" /\ ret.outcome = "ok") =>
        /\ current_macro # NoMacro
        /\ current_macro.origin = "update"
        /\ current_macro.type = ret.type
        /\ current_macro.open_loop = FALSE

\* a next_action call of a TrafficAgent that made a planned macro action
\* current: it ran the planner or took an action off the queue
C18_Advanced ==
    /\ kind = "TrafficAgent"
    /\ ret.op = "next_action"
    /\ ret.outcome = "ok"
    /\ (ret.planner > 0 \/ Len(macro_actions) < Len(ret.pre.plan))

\* C18: the macro action a next_action call of a TrafficAgent makes current
\* does not report done for the observation of the call, and no macro
\* action that reports done for it is asked for a command.
C18_NewCurrentIsNotDone ==
    /\ C18_Advanced => ~ret.cur_done
    /\ (kind = "TrafficAgent" /\ ret.op = "next_action"
            /\ ret.outcome = "ok" /\ ret.asked # NoMacro) => ~ret.cur_done

-----------------------------------------------------------------------------
(* Properties of best_road_at, continued *)

\* the roads at the point that best_road_at may return: all of them, or the
\* drivable ones when drivable is asked for
C19_Eligible ==
    {i \in RoadsAtPoint : query.drivable => network.roads[i].drivable}

\* best_road_at with a heading and a goal, at a point with two roads or more
C19_Pre ==
    /\ query.op = "best_road_at"
    /\ query.heading # NoHeading
    /\ query.goal
    /\ Cardinality(RoadsAtPoint) >= 2

\* C19: with a heading and a goal and at least two roads at the point,
\* best_road_at returns the eligible road whose midline is nearest to the
\* goal, the first in the order of the network among equally near ones (and
\* none when no road is eligible), whatever the angular differences are.
C19_NearestToGoal ==
    C19_Pre =>
        IF C19_Eligible = {} THEN query.value = NoRoad
        ELSE /\ query.value \in C19_Eligible
             /\ \A i \in C19_Eligible :
                   /\ network.roads[query.value].goal <= network.roads[i].goal
                   /\ network.roads[i].goal = network.roads[query.value].goal
                         => query.value <= i

\* the road returned is as near to the goal as another eligible road behind
\* it, and further off the heading than that one
C19_Witness ==
    /\ C19_Pre
    /\ query.value = 1
    /\ 2 \in C19_Eligible
    /\ network.roads[2].goal = network.roads[1].goal
    /\ RoadDiff(network.roads[2], NormaliseAngle(query.heading)) <
          RoadDiff(network.roads[1], NormaliseAngle(query.heading))

-----------------------------------------------------------------------------
(* best_lane_at *)

\* pi/4 in units of the precision error 1e-8: angular differences and
\* distances are added
AngleUnit == 78539816

\* no lane: best_lane_at returns None
NoLane == <<>>

\* angle_diff + distance of a lane in best_lane_at
LaneCost(net, ref, heading) ==
    LET lane == LaneOf(net, ref)
        original_angle == net.roads[ref[1]].angle
        angle == IF lane.id > 0 THEN NormaliseAngle(original_angle + Pi)
                 ELSE original_angle
        angle_diff == IF heading # NoHeading THEN Abs(heading - angle) ELSE 0
    IN angle_diff * AngleUnit + lane.boundary

\* The loop of best_lane_at after the first k of the lanes that pass the test
\* on boundary, id and type: <<cost, lane>>, or <<>> while best is None.
RECURSIVE BestLaneAfter(_, _, _, _, _)
BestLaneAfter(net, refs, k, heading, md) ==
    IF k = 0 THEN <<>>
    ELSE LET best == BestLaneAfter(net, refs, k - 1, heading, md)
             lane == LaneOf(net, refs[k])
         IN IF lane.boundary < md
            THEN IF best = <<>> \/ best[1] > LaneCost(net, refs[k], heading)
                 THEN <<LaneCost(net, refs[k], heading), refs[k]>>
                 ELSE best
            ELSE best

\* best_lane_at without the test on the lane id
BestLaneAtWithCenter(net, heading, drivable_only, max_distance, with_goal) ==
    LET md == IF max_distance = NoDistance THEN LANE_PRECISION_ERROR
              ELSE max_distance
        road == BestRoadAt(net, heading, TRUE, with_goal)
        Tested(ref) ==
            /\ LaneOf(net, ref).boundary # NoBoundary
            /\ (~drivable_only \/ LaneOf(net, ref).type = "driving")
        refs == SelectSeq(LaneRefs(net, road), Tested)
        best == BestLaneAfter(net, refs, Len(refs), heading, md)
    IN IF road = NoRoad THEN NoLane
       ELSE IF best = <<>> THEN NoLane ELSE best[2]

\* Map.best_lane_at
BestLaneAt(net, heading, drivable_only, max_distance, with_goal) ==
    LET md == IF max_distance = NoDistance THEN LANE_PRECISION_ERROR
              ELSE max_distance
        road == BestRoadAt(net, heading, TRUE, with_goal)
        Tested(ref) ==
            /\ LaneOf(net, ref).boundary # NoBoundary
            /\ LaneOf(net, ref).id # 0
            /\ (~drivable_only \/ LaneOf(net, ref).type = "driving")
        refs == SelectSeq(LaneRefs(net, road), Tested)
        best == BestLaneAfter(net, refs, Len(refs), heading, md)
    IN IF road = NoRoad THEN NoLane
       ELSE IF best = <<>> THEN NoLane ELSE best[2]

\* Roads at the point, outside junctions: drivable and near the goal,
\* drivable, turned and far from it, or not drivable; each with one section
\* of a left lane (at the point, a precision error away, or without
\* boundary), the center lane and a right lane (drivable or not).
BestLaneRoads ==
    {[boundary |-> 0, drivable |-> r[1], junction |-> NoJunction,
      angle |-> r[2], goal |-> r[3],
      lanes |-> <<<<Lane(1, lb, "driving"), Lane(0, 0, "none"),
                    Lane(-1, 0, rt)>>>>] :
        r \in {<<TRUE, 0, 1>>, <<TRUE, 3, 2>>, <<FALSE, 0, 1>>},
        lb \in Distances \cup {NoBoundary}, rt \in LaneTypes}

BestLaneNetworks ==
    [roads : SeqsUpTo(BestLaneRoads, MaxRoads), junction : {NoBoundary}]

QueryBestLaneAt(heading, drivable_only, max_distance, with_goal) ==
    /\ query.op = "none"
    /\ query' = BestQuery("best_lane_at", heading, drivable_only,
                          max_distance, with_goal,
                          BestLaneAt(network, heading, drivable_only,
                                     max_distance, with_goal))
    /\ UNCHANGED <<network, agentVars>>

BestLaneInit ==
    /\ network \in BestLaneNetworks
    /\ query = NoQuery
    /\ AgentIdle

BestLaneNext ==
    \E heading \in Headings \cup {NoHeading}, drivable_only \in BOOLEAN,
       max_distance \in MaxDistances, with_goal \in BOOLEAN :
        QueryBestLaneAt(heading, drivable_only, max_distance, with_goal)

\* best_lane_at, once on every network of the family
BestLaneSpec == BestLaneInit /\ [][BestLaneNext]_vars

\* the road best_road_at gives for the heading and goal of the query
C20_Road == BestRoadAt(network, query.heading, TRUE, query.goal)

\* the lanes of that road that qualify: not the center lane, within
\* max_distance of the point, drivable when that is asked for
C20_Qualifying ==
    {ref \in {<<C20_Road, s, k>> : s \in 1..1, k \in 1..3} :
        LET lane == LaneOf(network, ref)
        IN /\ lane.id # 0
           /\ lane.boundary # NoBoundary
           /\ lane.boundary < (IF query.max_distance = NoDistance
                               THEN LANE_PRECISION_ERROR
                               ELSE query.max_distance)
           /\ (query.drivable => lane.type = "driving")}

\* C20: best_lane_at returns none when best_road_at, given the heading and
\* the goal, finds no road; else the qualifying lane of that road with the
\* least angle_diff + distance, the first in section and lane order among
\* equal ones, and none when no lane qualifies; never a lane of another
\* road and never a lane with id 0.
C20_BestLaneOfBestRoad ==
    query.op = "best_lane_at" =>
        IF C20_Road = NoRoad THEN query.value = NoLane
        ELSE IF C20_Qualifying = {} THEN query.value = NoLane
        ELSE /\ query.value \in C20_Qualifying
             /\ query.value[1] = C20_Road
             /\ LaneOf(network, query.value).id # 0
             /\ \A ref \in C20_Qualifying :
                   LET mine == LaneCost(network, query.value, query.heading)
                       other == LaneCost(network, ref, query.heading)
                   IN /\ mine <= other
                      /\ mine = other =>
                            \/ query.value[2] < ref[2]
                            \/ /\ query.value[2] = ref[2]
                               /\ query.value[3] <= ref[3]

\* the goal picks the second road, and its right lane beats its left lane,
\* which qualifies too
C20_Witness ==
    /\ query.op = "best_lane_at"
    /\ query.heading # NoHeading /\ query.goal
    /\ C20_Road = 2
    /\ query.value = <<2, 1, 3>>
    /\ <<2, 1, 1>> \in C20_Qualifying
    /\ LaneCost(network, <<2, 1, 1>>, query.heading) >
          LaneCost(network, <<2, 1, 3>>, query.heading)

-----------------------------------------------------------------------------
(* best_road_at with drivable set *)

\* Road.drivable: the road owns at least one drivable lane
Drivable(lanes) ==
    \E s \in 1..Len(lanes) : \E k \in 1..Len(lanes[s]) :
        lanes[s][k].type = "driving"

\* Roads outside junctions, at the point or a precision error away, whose
\* one right lane is drivable or a sidewalk; drivable follows from the lane.
DrivableRoads ==
    {[boundary |-> b, drivable |-> Drivable(lanes), junction |-> NoJunction,
      angle |-> a, goal |-> g, lanes |-> lanes] :
        b \in Distances, a \in RoadAngles, g \in GoalDistances,
        lanes \in {<<<<Lane(0, NoBoundary, "none"), Lane(-1, 0, t)>>>> :
                      t \in LaneTypes}}

DrivableInit ==
    /\ network \in [roads : SeqsUpTo(DrivableRoads, MaxRoads),
                     junction : {NoBoundary}]
    /\ query = NoQuery
    /\ AgentIdle

\* best_road_at, once on every network of roads with derived drivability
DrivableSpec == DrivableInit /\ [][BestRoadNext]_vars

\* C21: the road best_road_at returns when drivable is set owns a drivable
\* lane, with or without heading, with or without goal, for any number of
\* roads at the point.
C21_ReturnedRoadIsDrivable ==
    (query.op = "best_road_at" /\ query.drivable /\ query.value # NoRoad) =>
        Drivable(network.roads[query.value].lanes)

-----------------------------------------------------------------------------
(* adjacent_lanes_at and the lookups that find nothing *)

\* Map.adjacent_lanes_at: best_lane_at with its defaults for drivable_only,
\* max_distance and goal, then get_adjacent_lanes of what it returned; None
\* has no attribute id.
AdjacentLanesAt(net, heading, same_direction, drivable_only) ==
    LET current_lane == BestLaneAt(net, heading, TRUE, NoDistance, FALSE)
    IN IF current_lane = NoLane
       THEN [outcome |-> "AttributeError", value |-> <<>>]
       ELSE [outcome |-> "ok",
             value |-> GetAdjacentLanes(net, current_lane, same_direction,
                                        drivable_only)]

\* Roads outside junctions, at the point or a precision error away, with a
\* left lane (at the point or not, drivable or not), the center lane and a
\* right lane (drivable or not).
MissRoads ==
    {[boundary |-> b, drivable |-> Drivable(lanes), junction |-> NoJunction,
      angle |-> 0, goal |-> 1, lanes |-> lanes] :
        b \in Distances,
        lanes \in {<<<<Lane(1, lb, lt), Lane(0, 0, "none"), Lane(-1, 0, rt)>>>> :
                      lb \in Distances, lt \in LaneTypes, rt \in LaneTypes}}

QueryAdjacentLanesAt(heading, same_direction, drivable_only) ==
    LET result == AdjacentLanesAt(network, heading, same_direction,
                                  drivable_only)
    IN /\ query.op = "none"
       /\ query' = [op |-> "adjacent_lanes_at", heading |-> heading,
                    same_direction |-> same_direction,
                    drivable_only |-> drivable_only,
                    outcome |-> result.outcome, value |-> result.value]
       /\ UNCHANGED <<network, agentVars>>

\* The junction of the map is absent, at the point or a precision error away.
MissInit ==
    /\ network \in [roads : SeqsUpTo(MissRoads, MaxRoads),
                     junction : Distances \cup {NoBoundary}]
    /\ query = NoQuery
    /\ AgentIdle

MissNext ==
    \/ query.op = "none" /\ QueryJunctionAt
    \/ \E heading \in Headings \cup {NoHeading}, drivable \in BOOLEAN,
          with_goal \in BOOLEAN :
           QueryBestRoadAt(heading, drivable, with_goal)
    \/ \E heading \in Headings \cup {NoHeading}, drivable_only \in BOOLEAN,
          max_distance \in MaxDistances, with_goal \in BOOLEAN :
           QueryBestLaneAt(heading, drivable_only, max_distance, with_goal)
    \/ \E heading \in Headings \cup {NoHeading}, same_direction \in BOOLEAN,
          drivable_only \in BOOLEAN :
           QueryAdjacentLanesAt(heading, same_direction, drivable_only)

\* one lookup on every network of the family
MissSpec == MissInit /\ [][MissNext]_vars

\* no road and no junction covers the point
C23_Uncovered ==
    /\ RoadsAtPoint = {}
    /\ JunctionAt(network) = NoJunction

\* C23: at a point covered by no road and no junction, junction_at,
\* best_road_at and best_lane_at return none, and adjacent_lanes_at returns
\* an empty list without raising.
C23_MissIsNoneOrEmpty ==
    C23_Uncovered =>
        /\ query.op = "junction_at" => query.value = <<>>
        /\ query.op = "best_road_at" => query.value = NoRoad
        /\ query.op = "best_lane_at" => query.value = NoLane
        /\ query.op = "adjacent_lanes_at" =>
              query.outcome = "ok" /\ query.value = <<>>

-----------------------------------------------------------------------------
(* The route-following agent, tick after tick *)

\* a tick whose observation lets the macro action in execution report done
NextActionOnDone ==
    \E o \in {<<TRUE, FALSE>>, <<TRUE, TRUE>>}, ms \in ManeuverStates,
       actions \in PlannerInputs(State) : CallNextAction(o, ms, actions)

\* TrafficAgent.__init__
RouteInit ==
    /\ Init
    /\ kind = "TrafficAgent"

\* The plan is given once, by the caller or by the planner, or not at all;
\* from then on the simulation calls next_action and done.
RouteNext ==
    \/ ret.op = "init" /\ \E new_macros \in PlanLengths :
                             CallSetMacroActions(new_macros)
    \/ ret.op = "init" /\ \E g \in Goals \cup {NoGoal}, actions \in PlannerResults :
                             CallSetDestination(g, actions)
    \/ \E o \in Observations, ms \in ManeuverStates,
          actions \in PlannerInputs(State) : CallNextAction(o, ms, actions)
    \/ \E o \in DoneObservations : CallDone(o)

\* next_action keeps being called, and whichever macro action is in
\* execution reports done at one of these calls in the end
RouteSpec ==
    RouteInit /\ [][RouteNext]_vars /\ WF_vars(NextActionOnDone)

\* the agent has a plan: actions queued, or one of them in execution
C22_HasPlan ==
    Len(macro_actions) > 0 \/ current_macro # NoMacro

\* Exhausted: done(observation) is true for the observation of the last tick
C22_Exhausted ==
    /\ ret.op = "next_action" /\ ret.outcome = "ok"
    /\ TrafficAgentDone(State, <<ret.cur_done, FALSE>>).outcome = "ok"
    /\ TrafficAgentDone(State, <<ret.cur_done, FALSE>>).value = "true"

\* C22: a route-following agent with a plan, ticked for ever with every
\* macro action in execution reporting done in the end, reaches Exhausted;
\* no next_action call of such an agent lengthens the queue, and the queue
\* runs empty.
C22_PlanIsWorkedOff ==
    /\ C22_HasPlan ~> C22_Exhausted
    /\ C22_HasPlan ~> (macro_actions = <<>>)
    /\ [][(C22_HasPlan /\ ret'.op = "next_action") =>
              Len(macro_actions') <= Len(macro_actions)]_vars

\* Exhausted after a plan of two actions or more, the last one made current
\* by a tick that found the one before it done
C22_Witness ==
    /\ C22_Exhausted
    /\ last_advanced >= 2
    /\ ret.pre.plan = <<>>
    /\ ret.value = "neutral"

====
